---- MODULE Spec2Model ----
(***************************************************************************)
(* R1CS constraint-system construction and proof-input assembly            *)
(* (src/src/circuit_proof/r1cs.rs).                                        *)
(*                                                                         *)
(* Two constraint systems are built side by side, as the test helper       *)
(* create_and_verify_helper and its callers do: every gadget step          *)
(* (assign_a, assign_v, constrain) is applied to prover_cs with the        *)
(* caller's assignments and to verifier_cs with err_assignment(); each CS  *)
(* is then consumed once by create_proof_input.                            *)
(*                                                                         *)
(* Scalars are the integers modulo the prime P.  Rust vectors are          *)
(* 0-indexed, TLA+ sequences 1-indexed: index k of the code is position    *)
(* k + 1 of the sequence (operator At).                                    *)
(***************************************************************************)
EXTENDS Integers, Sequences, FiniteSets, TLC

VARIABLES prover_cs, verifier_cs, phase, ret,
          prover_circuit, prover_input, verifier_input, verifier_circuit,
          V_call, expr, transcript, challenges, actual_result

vars == <<prover_cs, verifier_cs, phase, ret,
          prover_circuit, prover_input, verifier_input, verifier_circuit,
          V_call, expr, transcript, challenges, actual_result>>

----------------------------------------------------------------------------
(* Bounds of the model.                                                    *)

\* multiplier gates a caller allocates (3 is the first count that pads)
MaxGates == 3
\* committed wires a caller allocates
MaxV == 2
\* constraints added under Spec, and terms of each
MaxLC == 1
MaxTerms == 1
\* SpecLC: gates, committed wires, constraints, terms per constraint and
\* terms over all constraints
LCMaxGates == 2
LCMaxV == 1
LCMaxLC == 2
LCMaxTerms == 2
LCMaxTotalTerms == 2
\* SpecMakeV: committed wires, and length of the blinding vector passed in
MVMaxV == 3
MVMaxBlindings == 4
\* SpecOrder: gates, committed wires and single-term constraints, interleaved
OrdMaxGates == 2
OrdMaxV == 2
OrdMaxLC == 2
\* SpecForeign: gates, committed wires and constraints of the CS, and the
\* gates and committed wires of the other CS instance whose variables the
\* caller holds
ForMaxGates == 1
ForMaxV == 1
ForMaxLC == 1
OtherMaxGates == 2
OtherMaxV == 1
\* SpecAlgebra: gates a gadget computes and allocates
AlgMaxGates == 2
\* SpecChallenge: committed wires given at construction, gates, constraints
\* and challenge requests per CS
ChMaxV == 1
ChMaxGates == 1
ChMaxLC == 1
ChMaxChallenges == 2
\* SpecRoundTrip: gates, committed wires, constraints and terms of each
RTMaxGates == 1
RTMaxV == 1
RTMaxLC == 1
RTMaxTerms == 2
\* SpecAppend: gates (3 is the first count that pads), committed wires and
\* constraints, with values that tell the entries apart
AppMaxGates == 3
AppMaxV == 1
AppMaxLC == 2

----------------------------------------------------------------------------
(* Scalar field.                                                           *)

P == 3
Scalars == 0 .. (P - 1)
zer == 0
one == 1
Neg(x) == (P - x) % P
Add(x, y) == (x + y) % P
Mul(x, y) == (x * y) % P

At(s, k) == s[k + 1]

RECURSIVE SeqsUpTo(_, _)
SeqsUpTo(S, n) ==
    IF n = 0 THEN {<<>>}
    ELSE LET shorter == SeqsUpTo(S, n - 1)
         IN  shorter \cup {Append(s, x) : s \in {t \in shorter : Len(t) = n - 1}, x \in S}

SeqsOfLen(S, n) == {s \in SeqsUpTo(S, n) : Len(s) = n}

----------------------------------------------------------------------------
(* Assignment = Result<Scalar, R1CSError>.                                 *)

Ok(s) == [ok |-> TRUE, val |-> s, err |-> "none"]
Err(e) == [ok |-> FALSE, val |-> 0, err |-> e]
err_assignment == Err("InvalidVariableAssignment")

HasValue(a) == a.ok
Missing(a) == ~a.ok

(* Assignment arithmetic (circuit_proof/assignment.rs): +, - and * of two  *)
(* assignments.  A missing operand makes the result missing; two values    *)
(* are combined in the scalar field.                                       *)
AssignmentOps == {"+", "-", "*"}

AssignmentOp_missing_as_zero(op, x, y) ==
    CASE op = "+" -> Ok(Add(x.val, y.val))
      [] op = "-" -> Ok(Add(x.val, Neg(y.val)))
      [] op = "*" -> Ok(Mul(x.val, y.val))

AssignmentOp(op, x, y) ==
    IF Missing(x) \/ Missing(y) THEN err_assignment
    ELSE CASE op = "+" -> Ok(Add(x.val, y.val))
           [] op = "-" -> Ok(Add(x.val, Neg(y.val)))
           [] op = "*" -> Ok(Mul(x.val, y.val))

(* Variable { var_type, index }                                            *)
VariableType == {"v", "aL", "aR", "aO"}
Variable(t, i) == [var_type |-> t, index |-> i]

(* LinearCombination { variables: Vec<(Variable, Scalar)>, constant }      *)
LinearCombination(variables, constant) ==
    [variables |-> variables, constant |-> constant]

(* ConstraintSystem::new                                                   *)
new ==
    [lc_vec |-> <<>>,
     aL_assignment |-> <<>>,
     aR_assignment |-> <<>>,
     aO_assignment |-> <<>>,
     v_assignment |-> <<>>]

(* make_variable: push the value on the vector of its type, return the     *)
(* variable indexed by the new last position.                              *)
make_variable_shared_counter(cs, var_type, value) ==
    LET count == Len(cs.aL_assignment) + Len(cs.aR_assignment)
                   + Len(cs.aO_assignment) + Len(cs.v_assignment)
    IN  CASE var_type = "aL" ->
               [cs  |-> [cs EXCEPT !.aL_assignment = Append(@, value)],
                var |-> Variable("aL", count)]
          [] var_type = "aR" ->
               [cs  |-> [cs EXCEPT !.aR_assignment = Append(@, value)],
                var |-> Variable("aR", count)]
          [] var_type = "aO" ->
               [cs  |-> [cs EXCEPT !.aO_assignment = Append(@, value)],
                var |-> Variable("aO", count)]
          [] var_type = "v" ->
               [cs  |-> [cs EXCEPT !.v_assignment = Append(@, value)],
                var |-> Variable("v", count)]

make_variable_index_after_push(cs, var_type, value) ==
    CASE var_type = "aL" ->
           LET pushed == Append(cs.aL_assignment, value)
           IN  [cs  |-> [cs EXCEPT !.aL_assignment = pushed],
                var |-> Variable("aL", Len(pushed))]
      [] var_type = "aR" ->
           LET pushed == Append(cs.aR_assignment, value)
           IN  [cs  |-> [cs EXCEPT !.aR_assignment = pushed],
                var |-> Variable("aR", Len(pushed))]
      [] var_type = "aO" ->
           LET pushed == Append(cs.aO_assignment, value)
           IN  [cs  |-> [cs EXCEPT !.aO_assignment = pushed],
                var |-> Variable("aO", Len(pushed))]
      [] var_type = "v" ->
           LET pushed == Append(cs.v_assignment, value)
           IN  [cs  |-> [cs EXCEPT !.v_assignment = pushed],
                var |-> Variable("v", Len(pushed))]

make_variable(cs, var_type, value) ==
    CASE var_type = "aL" ->
           LET pushed == Append(cs.aL_assignment, value)
           IN  [cs  |-> [cs EXCEPT !.aL_assignment = pushed],
                var |-> Variable("aL", Len(pushed) - 1)]
      [] var_type = "aR" ->
           LET pushed == Append(cs.aR_assignment, value)
           IN  [cs  |-> [cs EXCEPT !.aR_assignment = pushed],
                var |-> Variable("aR", Len(pushed) - 1)]
      [] var_type = "aO" ->
           LET pushed == Append(cs.aO_assignment, value)
           IN  [cs  |-> [cs EXCEPT !.aO_assignment = pushed],
                var |-> Variable("aO", Len(pushed) - 1)]
      [] var_type = "v" ->
           LET pushed == Append(cs.v_assignment, value)
           IN  [cs  |-> [cs EXCEPT !.v_assignment = pushed],
                var |-> Variable("v", Len(pushed) - 1)]

(* assign_a: three make_variable calls; infallible.                        *)
assign_a_product_out(cs, aL_val, aR_val, aO_val) ==
    LET l == make_variable(cs, "aL", aL_val)
        r == make_variable(l.cs, "aR", aR_val)
        o == make_variable(r.cs, "aO",
                           IF HasValue(aL_val) /\ HasValue(aR_val)
                           THEN Ok(Mul(aL_val.val, aR_val.val)) ELSE aO_val)
    IN  [cs |-> o.cs, vars |-> <<l.var, r.var, o.var>>]

assign_a_right_on_left(cs, aL_val, aR_val, aO_val) ==
    LET l == make_variable(cs, "aL", aL_val)
        r == make_variable(l.cs, "aL", aR_val)
        o == make_variable(r.cs, "aO", aO_val)
    IN  [cs |-> o.cs, vars |-> <<l.var, r.var, o.var>>]

assign_a(cs, aL_val, aR_val, aO_val) ==
    LET l == make_variable(cs, "aL", aL_val)
        r == make_variable(l.cs, "aR", aR_val)
        o == make_variable(r.cs, "aO", aO_val)
    IN  [cs |-> o.cs, vars |-> <<l.var, r.var, o.var>>]

(* assign_v                                                                *)
assign_v(cs, v_val) ==
    LET v == make_variable(cs, "v", v_val)
    IN  [cs |-> v.cs, vars |-> <<v.var>>]

(* constrain: push, nothing else.                                          *)
constrain_checks_constant(cs, lc) ==
    IF lc.variables = <<>> /\ lc.constant # zer
    THEN cs
    ELSE [cs EXCEPT !.lc_vec = Append(cs.lc_vec, lc)]

constrain_prepends(cs, lc) == [cs EXCEPT !.lc_vec = <<lc>> \o cs.lc_vec]

constrain(cs, lc) == [cs EXCEPT !.lc_vec = Append(cs.lc_vec, lc)]

----------------------------------------------------------------------------
(* usize::is_power_of_two and usize::next_power_of_two, as get_n and       *)
(* create_proof_input call them.                                           *)

RECURSIVE is_power_of_two(_)
is_power_of_two(n) ==
    IF n = 0 THEN FALSE
    ELSE IF n = 1 THEN TRUE
    ELSE n % 2 = 0 /\ is_power_of_two(n \div 2)

RECURSIVE DoubleUntil(_, _)
DoubleUntil(p, n) == IF p >= n THEN p ELSE DoubleUntil(2 * p, n)

next_power_of_two(n) == DoubleUntil(1, n)

(* get_n: number of multiplications, padded.                               *)
get_n_unguarded(cs) == next_power_of_two(Len(cs.aL_assignment))

get_n_counts_values(cs) ==
    LET n == Cardinality({i \in 1 .. Len(cs.aL_assignment) : HasValue(cs.aL_assignment[i])})
    IN  IF n = 0 \/ is_power_of_two(n) THEN n ELSE next_power_of_two(n)

get_n(cs) ==
    LET n == Len(cs.aL_assignment)
    IN  IF n = 0 \/ is_power_of_two(n) THEN n ELSE next_power_of_two(n)

(* get_m: number of high-level witness variables.                          *)
get_m(cs) == Len(cs.v_assignment)

----------------------------------------------------------------------------
(* Collecting a Vec<Assignment> into Result<Vec<Scalar>, _>: the first Err *)
(* in iteration order, else every value.                                   *)

AllHaveValue(as) == \A i \in 1 .. Len(as) : HasValue(as[i])

FirstErr(as) ==
    LET i == CHOOSE i \in 1 .. Len(as) :
                 Missing(as[i]) /\ \A j \in 1 .. (i - 1) : HasValue(as[j])
    IN  as[i].err

Values(as) == [i \in 1 .. Len(as) |-> as[i].val]

(* PedersenGenerators::commit(value, blinding): an opaque binding of the   *)
(* pair.                                                                   *)
commit(value, blinding) == [value |-> value, blinding |-> blinding]

OkV(V) == [ok |-> TRUE, V |-> V, err |-> "none"]
ErrV(e) == [ok |-> FALSE, V |-> <<>>, err |-> e]

(* make_V                                                                  *)
make_V_zip_only(cs, v_blinding) ==
    LET k == IF Len(v_blinding) < Len(cs.v_assignment)
             THEN Len(v_blinding) ELSE Len(cs.v_assignment)
        zipped == SubSeq(cs.v_assignment, 1, k)
    IN  IF AllHaveValue(zipped)
        THEN OkV([i \in 1 .. k |-> commit(zipped[i].val, v_blinding[i])])
        ELSE ErrV(FirstErr(zipped))

make_V(cs, v_blinding) ==
    IF Len(v_blinding) # get_m(cs)
    THEN ErrV("IncorrectInputSize")
    ELSE IF AllHaveValue(cs.v_assignment)
         THEN OkV([i \in 1 .. Len(cs.v_assignment) |->
                      commit(cs.v_assignment[i].val, v_blinding[i])])
         ELSE ErrV(FirstErr(cs.v_assignment))

----------------------------------------------------------------------------
(* The transcript behind challenge_scalar, and the two constructors that   *)
(* write the commitments into it (r1cs/prover.rs, r1cs/verifier.rs).  A    *)
(* transcript is the sequence of what it absorbed; a challenge absorbs its *)
(* label and returns a digest of everything absorbed so far.               *)

Labels == {"k-shuffle challenge", "second challenge"}

PointEntry(V) == [kind |-> "V", V |-> V, label |-> "V"]
LabelEntry(label) == [kind |-> "challenge", V |-> commit(zer, zer), label |-> label]

EntryCode(e) ==
    IF e.kind = "V" THEN 1 + e.V.value + P * e.V.blinding
    ELSE IF e.label = "k-shuffle challenge" THEN 1 ELSE 2

RECURSIVE Digest(_, _)
Digest(t, k) ==
    IF k = 0 THEN one ELSE (2 * Digest(t, k - 1) + EntryCode(t[k])) % P

challenge_scalar_binds_multipliers(cs, t, label) ==
    LET after == Append(t, LabelEntry(label))
        RECURSIVE Sum(_)
        Sum(i) == IF i = 0 THEN 0 ELSE Sum(i - 1) + cs.aL_assignment[i].val
    IN  [transcript |-> after,
         scalar |-> (Digest(after, Len(after)) + Sum(Len(cs.aL_assignment))) % P]

challenge_scalar(cs, t, label) ==
    LET after == Append(t, LabelEntry(label))
    IN  [transcript |-> after, scalar |-> Digest(after, Len(after))]

(* ProverCS::new(gens, transcript, v, v_blinding): commit to every value,  *)
(* append the commitments to the transcript in order, hold the values.     *)
ProverCS_new(v, v_blinding) ==
    LET V == [i \in 1 .. Len(v) |-> commit(v[i], v_blinding[i])]
    IN  [cs |-> [new EXCEPT !.v_assignment = [i \in 1 .. Len(v) |-> Ok(v[i])]],
         transcript |-> [i \in 1 .. Len(v) |-> PointEntry(V[i])],
         commitments |-> V]

(* VerifierCS::new(gens, transcript, commitments): append the commitments  *)
(* received, in order; every committed wire is missing.                    *)
VerifierCS_new(commitments) ==
    [cs |-> [new EXCEPT !.v_assignment =
                          [i \in 1 .. Len(commitments) |-> err_assignment]],
     transcript |-> [i \in 1 .. Len(commitments) |-> PointEntry(commitments[i])]]

OkProverInput(aL, aR, aO, v_blinding) ==
    [ok |-> TRUE, aL |-> aL, aR |-> aR, aO |-> aO, v_blinding |-> v_blinding,
     err |-> "none"]
ErrProverInput(e) ==
    [ok |-> FALSE, aL |-> <<>>, aR |-> <<>>, aO |-> <<>>, v_blinding |-> <<>>,
     err |-> e]

(* create_prover_input: collect aL, then aR, then aO, each with `?`.       *)
create_prover_input_left_only(cs, v_blinding) ==
    IF ~AllHaveValue(cs.aL_assignment) THEN ErrProverInput(FirstErr(cs.aL_assignment))
    ELSE OkProverInput(Values(cs.aL_assignment), Values(cs.aR_assignment),
                       Values(cs.aO_assignment), v_blinding)

create_prover_input(cs, v_blinding) ==
    IF ~AllHaveValue(cs.aL_assignment) THEN ErrProverInput(FirstErr(cs.aL_assignment))
    ELSE IF ~AllHaveValue(cs.aR_assignment) THEN ErrProverInput(FirstErr(cs.aR_assignment))
    ELSE IF ~AllHaveValue(cs.aO_assignment) THEN ErrProverInput(FirstErr(cs.aO_assignment))
    ELSE OkProverInput(Values(cs.aL_assignment), Values(cs.aR_assignment),
                       Values(cs.aO_assignment), v_blinding)

(* create_verifier_input                                                   *)
create_verifier_input(cs, v_blinding) == make_V(cs, v_blinding)

----------------------------------------------------------------------------
(* create_circuit.  One constraint's cells are a record of four rows; the  *)
(* inner loop writes one cell per term with `=`, in the order of the       *)
(* terms.                                                                  *)

ZeroRow(k) == [i \in 1 .. k |-> zer]
ZeroCells_extra_committed_column(n, m) ==
    [L |-> ZeroRow(n), R |-> ZeroRow(n), O |-> ZeroRow(n), V |-> ZeroRow(m + 1)]

ZeroCells(n, m) == [L |-> ZeroRow(n), R |-> ZeroRow(n), O |-> ZeroRow(n), V |-> ZeroRow(m)]

WriteTerm_plain_coeff(cells, term) ==
    LET var == term[1]
        coeff == term[2]
    IN  CASE var.var_type = "aL" -> [cells EXCEPT !.L[var.index + 1] = coeff]
          [] var.var_type = "aR" -> [cells EXCEPT !.R[var.index + 1] = Neg(coeff)]
          [] var.var_type = "aO" -> [cells EXCEPT !.O[var.index + 1] = Neg(coeff)]
          [] var.var_type = "v"  -> [cells EXCEPT !.V[var.index + 1] = Neg(coeff)]

WriteTerm(cells, term) ==
    LET var == term[1]
        coeff == term[2]
    IN  CASE var.var_type = "aL" -> [cells EXCEPT !.L[var.index + 1] = Neg(coeff)]
          [] var.var_type = "aR" -> [cells EXCEPT !.R[var.index + 1] = Neg(coeff)]
          [] var.var_type = "aO" -> [cells EXCEPT !.O[var.index + 1] = Neg(coeff)]
          [] var.var_type = "v"  -> [cells EXCEPT !.V[var.index + 1] = coeff]

RECURSIVE CellsAfter(_, _, _, _)
CellsAfter(lc, n, m, j) ==
    IF j = 0 THEN ZeroCells(n, m)
    ELSE WriteTerm(CellsAfter(lc, n, m, j - 1), lc.variables[j])

Circuit(n, m, q, c, W_L, W_R, W_O, W_V) ==
    [n |-> n, m |-> m, q |-> q, c |-> c,
     W_L |-> W_L, W_R |-> W_R, W_O |-> W_O, W_V |-> W_V]

create_circuit(cs) ==
    LET n == get_n(cs)
        m == Len(cs.v_assignment)
        q == Len(cs.lc_vec)
        cells == [index \in 1 .. q |->
                     CellsAfter(cs.lc_vec[index], n, m, Len(cs.lc_vec[index].variables))]
    IN  Circuit(n, m, q,
                [index \in 1 .. q |-> cs.lc_vec[index].constant],
                [index \in 1 .. q |-> cells[index].L],
                [index \in 1 .. q |-> cells[index].R],
                [index \in 1 .. q |-> cells[index].O],
                [index \in 1 .. q |-> cells[index].V])

(* W_L[index][var.index] = .. and its three siblings index a row of n (or  *)
(* m) cells: an index past the end of the row panics.                      *)
create_circuit_panics(cs) ==
    LET n == get_n(cs)
        m == Len(cs.v_assignment)
    IN  \E index \in 1 .. Len(cs.lc_vec) :
            \E j \in 1 .. Len(cs.lc_vec[index].variables) :
                LET var == cs.lc_vec[index].variables[j][1]
                IN  IF var.var_type = "v" THEN var.index >= m ELSE var.index >= n

(* create_proof_input: pad, draw the blindings, assemble.  rng_scalars is  *)
(* what the rng returns, one scalar per committed wire.                    *)
RECURSIVE PadWith(_, _)
PadWith(cs, pad) ==
    IF pad = 0 THEN cs
    ELSE PadWith(assign_a(cs, Ok(zer), Ok(zer), Ok(zer)).cs, pad - 1)

PadCount_no_subtraction(cs) ==
    LET n == Len(cs.aL_assignment)
    IN  IF ~(n = 0 \/ is_power_of_two(n)) THEN next_power_of_two(n) ELSE 0

PadCount(cs) ==
    LET n == Len(cs.aL_assignment)
    IN  IF ~(n = 0 \/ is_power_of_two(n)) THEN next_power_of_two(n) - n ELSE 0

create_proof_input_panics(cs) == create_circuit_panics(PadWith(cs, PadCount(cs)))

create_proof_input_constrains_padding(cs, rng_scalars) ==
    LET padded == PadWith(cs, PadCount(cs))
        last == Variable("aL", Len(padded.aL_assignment) - 1)
        self == IF PadCount(cs) > 0
                THEN constrain(padded, LinearCombination(<<<<last, one>>>>, zer))
                ELSE padded
        v_blinding == rng_scalars
    IN  [self |-> self,
         circuit |-> create_circuit(self),
         prover_input |-> create_prover_input(self, v_blinding),
         verifier_input |-> create_verifier_input(self, v_blinding)]

create_proof_input(cs, rng_scalars) ==
    LET self == PadWith(cs, PadCount(cs))
        v_blinding == rng_scalars
    IN  [self |-> self,
         circuit |-> create_circuit(self),
         prover_input |-> create_prover_input(self, v_blinding),
         verifier_input |-> create_verifier_input(self, v_blinding)]

----------------------------------------------------------------------------
(* CircuitProof::prove and CircuitProof::verify (circuit_proof/circuit.rs) *)
(* as the ideal proof system they implement: a proof stands for the        *)
(* witness it was made from, the commitments bind the committed values,    *)
(* and verification accepts exactly when every multiplier gate holds and   *)
(* every row i gives                                                       *)
(*   <W_L[i],a_L> + <W_R[i],a_R> + <W_O[i],a_O> - <W_V[i],v> + c[i] = 0.   *)

RECURSIVE inner_product(_, _, _)
inner_product(a, b, k) ==
    IF k = 0 THEN zer ELSE Add(inner_product(a, b, k - 1), Mul(a[k], b[k]))

prove(circuit, input) == [aL |-> input.aL, aR |-> input.aR, aO |-> input.aO]

verify(circuit, proof, V) ==
    LET v == [i \in 1 .. Len(V) |-> V[i].value]
        gates == \A k \in 1 .. circuit.n :
                     Mul(proof.aL[k], proof.aR[k]) = proof.aO[k]
        rows == \A i \in 1 .. circuit.q :
                    Add(Add(Add(Add(inner_product(circuit.W_L[i], proof.aL, circuit.n),
                                    inner_product(circuit.W_R[i], proof.aR, circuit.n)),
                                inner_product(circuit.W_O[i], proof.aO, circuit.n)),
                            Neg(inner_product(circuit.W_V[i], v, circuit.m))),
                        circuit.c[i]) = zer
    IN  IF gates /\ rows THEN "Ok" ELSE "Err"

----------------------------------------------------------------------------
(* State.                                                                  *)
(*   prover_cs, verifier_cs   the two constraint systems                   *)
(*   phase                    per CS: "Open" until create_proof_input      *)
(*                            consumes it, then "Finalized", or "Panicked" *)
(*                            when the call panicked and returned nothing  *)
(*   ret                      the last gadget call: its name, the          *)
(*                            assignments or linear combination passed to  *)
(*                            prover_cs, and the variables both CSs        *)
(*                            returned                                     *)
(*   prover_circuit, prover_input, verifier_input                          *)
(*                            what prover_cs.create_proof_input returned   *)
(*   verifier_circuit         the circuit verifier_cs.create_proof_input   *)
(*                            returned (the helper drops the other two)    *)
(*   V_call                   the last direct make_V call on prover_cs:    *)
(*                            the blindings passed and the result          *)
(*   expr                     the last Assignment expression a gadget      *)
(*                            evaluated: operator, operands, and the       *)
(*                            result on each side                          *)
(*   transcript               per CS: what its transcript has absorbed     *)
(*   challenges               per CS: the scalars challenge_scalar has     *)
(*                            returned, in order                           *)
(*   actual_result            what verify returned for the proof           *)

NoRet ==
    [op |-> "none", args |-> <<>>, lc |-> LinearCombination(<<>>, zer),
     prover_vars |-> <<>>, verifier_vars |-> <<>>]
NoCircuit == Circuit(0, 0, 0, <<>>, <<>>, <<>>, <<>>, <<>>)
NoCall == [called |-> FALSE, v_blinding |-> <<>>, result |-> ErrV("none")]
NoExpr ==
    [op |-> "none", left |-> err_assignment, right |-> err_assignment,
     result |-> err_assignment, verifier_result |-> err_assignment]

Init ==
    /\ prover_cs = new
    /\ verifier_cs = new
    /\ phase = [prover |-> "Open", verifier |-> "Open"]
    /\ ret = NoRet
    /\ prover_circuit = NoCircuit
    /\ prover_input = ErrProverInput("none")
    /\ verifier_input = ErrV("none")
    /\ verifier_circuit = NoCircuit
    /\ V_call = NoCall
    /\ expr = NoExpr
    /\ transcript = [prover |-> <<>>, verifier |-> <<>>]
    /\ challenges = [prover |-> <<>>, verifier |-> <<>>]
    /\ actual_result = "none"

BothOpen == phase.prover = "Open" /\ phase.verifier = "Open"
BothFinalized == phase.prover = "Finalized" /\ phase.verifier = "Finalized"

outputs == <<prover_circuit, prover_input, verifier_input, verifier_circuit, V_call>>
gadget == <<expr, transcript, challenges, actual_result>>

(* One gadget step allocating a multiplier: the prover side passes the     *)
(* caller's assignments, the verifier side err_assignment().               *)
AssignA(aL_val, aR_val, aO_val) ==
    /\ BothOpen
    /\ LET p == assign_a(prover_cs, aL_val, aR_val, aO_val)
           v == assign_a(verifier_cs, err_assignment, err_assignment, err_assignment)
       IN  /\ prover_cs' = p.cs
           /\ verifier_cs' = v.cs
           /\ ret' = [op |-> "assign_a", args |-> <<aL_val, aR_val, aO_val>>,
                      lc |-> NoRet.lc,
                      prover_vars |-> p.vars, verifier_vars |-> v.vars]
    /\ UNCHANGED <<phase, outputs, gadget>>

(* One gadget step allocating a committed wire.                            *)
AssignV(v_val) ==
    /\ BothOpen
    /\ LET p == assign_v(prover_cs, v_val)
           v == assign_v(verifier_cs, err_assignment)
       IN  /\ prover_cs' = p.cs
           /\ verifier_cs' = v.cs
           /\ ret' = [op |-> "assign_v", args |-> <<v_val>>,
                      lc |-> NoRet.lc,
                      prover_vars |-> p.vars, verifier_vars |-> v.vars]
    /\ UNCHANGED <<phase, outputs, gadget>>

(* One gadget step adding a constraint to both systems.                    *)
Constrain(lc) ==
    /\ BothOpen
    /\ prover_cs' = constrain(prover_cs, lc)
    /\ verifier_cs' = constrain(verifier_cs, lc)
    /\ ret' = [op |-> "constrain", args |-> <<>>, lc |-> lc,
               prover_vars |-> <<>>, verifier_vars |-> <<>>]
    /\ UNCHANGED <<phase, outputs, gadget>>

(* One gadget step as KShuffleGadget::fill_cs makes it: combine two         *)
(* assignments and allocate a multiplier of the operands and the result;   *)
(* on the verifier side the operands are missing.                          *)
GadgetMultiplier(op, x, y) ==
    /\ BothOpen
    /\ LET result == AssignmentOp(op, x, y)
           verifier_result == AssignmentOp(op, err_assignment, err_assignment)
           p == assign_a(prover_cs, x, y, result)
           v == assign_a(verifier_cs, err_assignment, err_assignment, verifier_result)
       IN  /\ expr' = [op |-> op, left |-> x, right |-> y,
                       result |-> result, verifier_result |-> verifier_result]
           /\ prover_cs' = p.cs
           /\ verifier_cs' = v.cs
           /\ ret' = [op |-> "assign_a", args |-> <<x, y, result>>,
                      lc |-> NoRet.lc,
                      prover_vars |-> p.vars, verifier_vars |-> v.vars]
    /\ UNCHANGED <<phase, outputs, transcript, challenges, actual_result>>

(* cs.challenge_scalar(label) on the prover's CS, and on the verifier's.   *)
ProverChallenge(label) ==
    /\ phase.prover = "Open"
    /\ LET c == challenge_scalar(prover_cs, transcript.prover, label)
       IN  /\ transcript' = [transcript EXCEPT !.prover = c.transcript]
           /\ challenges' = [challenges EXCEPT !.prover = Append(@, c.scalar)]
    /\ UNCHANGED <<prover_cs, verifier_cs, phase, ret, outputs, expr, actual_result>>

VerifierChallenge(label) ==
    /\ phase.verifier = "Open"
    /\ LET c == challenge_scalar(verifier_cs, transcript.verifier, label)
       IN  /\ transcript' = [transcript EXCEPT !.verifier = c.transcript]
           /\ challenges' = [challenges EXCEPT !.verifier = Append(@, c.scalar)]
    /\ UNCHANGED <<prover_cs, verifier_cs, phase, ret, outputs, expr, actual_result>>

(* prover_cs.create_proof_input(..): consumes prover_cs.                   *)
FinalizeProver_by_reference(rng_scalars) ==
    /\ phase.prover = "Open"
    /\ ~create_proof_input_panics(prover_cs)
    /\ LET out == create_proof_input(prover_cs, rng_scalars)
       IN  /\ prover_cs' = out.self
           /\ prover_circuit' = out.circuit
           /\ prover_input' = out.prover_input
           /\ verifier_input' = out.verifier_input
    /\ UNCHANGED <<phase, verifier_cs, ret, verifier_circuit, V_call, gadget>>

FinalizeProver(rng_scalars) ==
    /\ phase.prover = "Open"
    /\ IF create_proof_input_panics(prover_cs)
       THEN /\ phase' = [phase EXCEPT !.prover = "Panicked"]
            /\ UNCHANGED <<prover_cs, prover_circuit, prover_input, verifier_input>>
       ELSE LET out == create_proof_input(prover_cs, rng_scalars)
            IN  /\ prover_cs' = out.self
                /\ prover_circuit' = out.circuit
                /\ prover_input' = out.prover_input
                /\ verifier_input' = out.verifier_input
                /\ phase' = [phase EXCEPT !.prover = "Finalized"]
    /\ UNCHANGED <<verifier_cs, ret, verifier_circuit, V_call, gadget>>

(* verifier_cs.create_proof_input(..): consumes verifier_cs; the caller    *)
(* keeps the circuit only.                                                 *)
FinalizeVerifier(rng_scalars) ==
    /\ phase.verifier = "Open"
    /\ IF create_proof_input_panics(verifier_cs)
       THEN /\ phase' = [phase EXCEPT !.verifier = "Panicked"]
            /\ UNCHANGED <<verifier_cs, verifier_circuit>>
       ELSE LET out == create_proof_input(verifier_cs, rng_scalars)
            IN  /\ verifier_cs' = out.self
                /\ verifier_circuit' = out.circuit
                /\ phase' = [phase EXCEPT !.verifier = "Finalized"]
    /\ UNCHANGED <<prover_cs, ret, prover_circuit, prover_input, verifier_input, V_call,
                   gadget>>

(* The rest of create_and_verify_helper: both inputs are asserted ok, the  *)
(* two circuits are asserted equal, the proof made from the prover's       *)
(* circuit and input is verified against the verifier's circuit.           *)
CreateAndVerify ==
    /\ BothFinalized
    /\ actual_result = "none"
    /\ prover_input.ok
    /\ verifier_input.ok
    /\ prover_circuit = verifier_circuit
    /\ actual_result' = verify(verifier_circuit,
                               prove(prover_circuit, prover_input),
                               verifier_input.V)
    /\ UNCHANGED <<prover_cs, verifier_cs, phase, ret, outputs,
                   expr, transcript, challenges>>

(* prover_cs.make_V(.., v_blinding) on an open CS.                         *)
MakeV(v_blinding) ==
    /\ phase.prover = "Open"
    /\ V_call' = [called |-> TRUE, v_blinding |-> v_blinding,
                  result |-> make_V(prover_cs, v_blinding)]
    /\ UNCHANGED <<prover_cs, verifier_cs, phase, ret,
                   prover_circuit, prover_input, verifier_input, verifier_circuit,
                   gadget>>

----------------------------------------------------------------------------
(* Inputs.                                                                 *)

\* what Scalar::random returns, sampled
BlindScalars == {1, 2}
RngDraws(m) == SeqsOfLen(BlindScalars, m)

\* the variables a CS has returned so far
OwnVars(cs) ==
    {Variable("aL", i) : i \in 0 .. (Len(cs.aL_assignment) - 1)}
    \cup {Variable("aR", i) : i \in 0 .. (Len(cs.aR_assignment) - 1)}
    \cup {Variable("aO", i) : i \in 0 .. (Len(cs.aO_assignment) - 1)}
    \cup {Variable("v", i) : i \in 0 .. (Len(cs.v_assignment) - 1)}

LCs(variables, coeffs, constants, maxTerms) ==
    {LinearCombination(ts, k) : ts \in SeqsUpTo(variables \X coeffs, maxTerms),
                                k \in constants}

TotalTerms(cs) ==
    LET RECURSIVE Sum(_)
        Sum(i) == IF i = 0 THEN 0 ELSE Sum(i - 1) + Len(cs.lc_vec[i].variables)
    IN  Sum(Len(cs.lc_vec))

\* Spec: a consistent gate, an inconsistent one, a mixed one, a missing one
GateInputs ==
    {<<Ok(1), Ok(2), Ok(2)>>,
     <<Ok(1), Ok(1), Ok(2)>>,
     <<Ok(1), err_assignment, Ok(1)>>,
     <<err_assignment, err_assignment, err_assignment>>}
VInputs == {Ok(2), err_assignment}

Next ==
    \/ \E g \in GateInputs :
          /\ Len(prover_cs.aL_assignment) < MaxGates
          /\ AssignA(g[1], g[2], g[3])
    \/ \E a \in VInputs :
          /\ Len(prover_cs.v_assignment) < MaxV
          /\ AssignV(a)
    \/ \E lc \in LCs(OwnVars(prover_cs), {Neg(one)}, {zer, one}, MaxTerms) :
          /\ Len(prover_cs.lc_vec) < MaxLC
          /\ Constrain(lc)
    \/ \E r \in RngDraws(get_m(prover_cs)) : FinalizeProver(r)
    \/ \E r \in RngDraws(get_m(verifier_cs)) : FinalizeVerifier(r)

Spec == Init /\ [][Next]_vars

\* SpecLC: every linear combination over the CS's own variables, few values
LCSteps(constants) ==
    \/ /\ Len(prover_cs.aL_assignment) < LCMaxGates
       /\ AssignA(Ok(1), Ok(1), Ok(1))
    \/ /\ Len(prover_cs.v_assignment) < LCMaxV
       /\ AssignV(Ok(1))
    \/ \E lc \in LCs(OwnVars(prover_cs), {one, Neg(one)}, constants, LCMaxTerms) :
          /\ Len(prover_cs.lc_vec) < LCMaxLC
          /\ TotalTerms(prover_cs) + Len(lc.variables) <= LCMaxTotalTerms
          /\ Constrain(lc)
    \/ \E r \in RngDraws(get_m(prover_cs)) : FinalizeProver(r)

NextLC == LCSteps({zer, one})

SpecLC == Init /\ [][NextLC]_vars

\* SpecLCZero: the same with the constant zer every test of the repository
\* passes to LinearCombination::new
NextLCZero == LCSteps({zer})

SpecLCZero == Init /\ [][NextLCZero]_vars

\* SpecMakeV: committed wires only, make_V with blinding vectors of any length
NextMakeV ==
    \/ \E a \in {Ok(1), Ok(2), err_assignment} :
          /\ Len(prover_cs.v_assignment) < MVMaxV
          /\ AssignV(a)
    \/ \E b \in SeqsUpTo(BlindScalars, MVMaxBlindings) : MakeV(b)

SpecMakeV == Init /\ [][NextMakeV]_vars

\* SpecOrder: allocations of both classes and constraints of at most one
\* term, in any order
NextOrder ==
    \/ /\ Len(prover_cs.aL_assignment) < OrdMaxGates
       /\ AssignA(Ok(1), Ok(1), Ok(1))
    \/ /\ Len(prover_cs.v_assignment) < OrdMaxV
       /\ AssignV(Ok(1))
    \/ \E lc \in LCs(OwnVars(prover_cs), {one}, {zer, one}, 1) :
          /\ Len(prover_cs.lc_vec) < OrdMaxLC
          /\ Constrain(lc)
    \/ \E r \in RngDraws(get_m(prover_cs)) : FinalizeProver(r)

SpecOrder == Init /\ [][NextOrder]_vars

\* SpecForeign: constraints built from the variables another CS instance
\* returned to the caller
RECURSIVE OtherCS(_, _)
OtherCS(gates, wires) ==
    IF gates > 0
    THEN assign_a(OtherCS(gates - 1, wires),
                  err_assignment, err_assignment, err_assignment).cs
    ELSE IF wires > 0
         THEN assign_v(OtherCS(gates, wires - 1), err_assignment).cs
         ELSE new

ForeignVars ==
    UNION {OwnVars(OtherCS(gates, wires)) :
              gates \in 0 .. OtherMaxGates, wires \in 0 .. OtherMaxV}

NextForeign ==
    \/ /\ Len(prover_cs.aL_assignment) < ForMaxGates
       /\ AssignA(Ok(1), Ok(1), Ok(1))
    \/ /\ Len(prover_cs.v_assignment) < ForMaxV
       /\ AssignV(Ok(1))
    \/ \E lc \in LCs(ForeignVars, {one}, {zer}, 1) :
          /\ Len(prover_cs.lc_vec) < ForMaxLC
          /\ Constrain(lc)
    \/ \E r \in RngDraws(get_m(prover_cs)) : FinalizeProver(r)
    \/ \E r \in RngDraws(get_m(verifier_cs)) : FinalizeVerifier(r)

SpecForeign == Init /\ [][NextForeign]_vars

\* SpecAlgebra: gadget steps over every pair of assignments
Assignments == {Ok(s) : s \in Scalars} \cup {err_assignment}

NextAlgebra ==
    \E op \in AssignmentOps, x \in Assignments, y \in Assignments :
        /\ Len(prover_cs.aL_assignment) < AlgMaxGates
        /\ GadgetMultiplier(op, x, y)

SpecAlgebra == Init /\ [][NextAlgebra]_vars

\* SpecChallenge: the prover's CS is constructed over its values and
\* blindings, the verifier's over the commitments it received (the prover's
\* or others); gadget steps and challenge requests then interleave
ChValues == {1, 2}
ChBlindings == {1}
Commitments == {commit(value, blinding) : value \in ChValues, blinding \in ChBlindings}

InitChallenge ==
    \E v \in SeqsUpTo(ChValues, ChMaxV) :
    \E v_blinding \in SeqsOfLen(ChBlindings, Len(v)) :
    \E received \in SeqsUpTo(Commitments, ChMaxV) :
        LET p == ProverCS_new(v, v_blinding)
            w == VerifierCS_new(received)
        IN  /\ prover_cs = p.cs
            /\ verifier_cs = w.cs
            /\ transcript = [prover |-> p.transcript, verifier |-> w.transcript]
            /\ challenges = [prover |-> <<>>, verifier |-> <<>>]
            /\ phase = [prover |-> "Open", verifier |-> "Open"]
            /\ ret = NoRet
            /\ prover_circuit = NoCircuit
            /\ prover_input = ErrProverInput("none")
            /\ verifier_input = ErrV("none")
            /\ verifier_circuit = NoCircuit
            /\ V_call = NoCall
            /\ expr = NoExpr
            /\ actual_result = "none"

NextChallenge ==
    \/ /\ Len(prover_cs.aL_assignment) < ChMaxGates
       /\ AssignA(Ok(1), Ok(1), Ok(1))
    \/ \E lc \in LCs(OwnVars(prover_cs) \cap OwnVars(verifier_cs), {one}, {zer}, 1) :
          /\ Len(prover_cs.lc_vec) < ChMaxLC
          /\ Constrain(lc)
    \/ \E label \in Labels :
          /\ Len(challenges.prover) < ChMaxChallenges
          /\ ProverChallenge(label)
    \/ \E label \in Labels :
          /\ Len(challenges.verifier) < ChMaxChallenges
          /\ VerifierChallenge(label)
    \/ \E r \in RngDraws(get_m(prover_cs)) : FinalizeProver(r)
    \/ \E r \in RngDraws(get_m(verifier_cs)) : FinalizeVerifier(r)

SpecChallenge == InitChallenge /\ [][NextChallenge]_vars

\* SpecRoundTrip: what the tests do: build both systems, finalize both,
\* prove and verify; gates that hold and gates that do not, constraints of
\* up to RTMaxTerms terms with the constant zer the tests pass
RTGateInputs == {<<Ok(1), Ok(1), Ok(1)>>, <<Ok(1), Ok(1), Ok(2)>>}
RTVInputs == {Ok(1), Ok(2)}

NextRoundTrip ==
    \/ \E g \in RTGateInputs :
          /\ Len(prover_cs.aL_assignment) < RTMaxGates
          /\ AssignA(g[1], g[2], g[3])
    \/ \E a \in RTVInputs :
          /\ Len(prover_cs.v_assignment) < RTMaxV
          /\ AssignV(a)
    \/ \E lc \in LCs(OwnVars(prover_cs), {one, Neg(one)}, {zer}, RTMaxTerms) :
          /\ Len(prover_cs.lc_vec) < RTMaxLC
          /\ Constrain(lc)
    \/ \E r \in RngDraws(get_m(prover_cs)) : FinalizeProver(r)
    \/ \E r \in RngDraws(get_m(verifier_cs)) : FinalizeVerifier(r)
    \/ CreateAndVerify

SpecRoundTrip == Init /\ [][NextRoundTrip]_vars

\* SpecAppend: allocations and constraints in any order, with gates, wires
\* and constraints that differ from one another, then finalization of
\* either system
AppGateInputs == {<<Ok(1), Ok(1), Ok(1)>>, <<Ok(2), Ok(2), Ok(1)>>}
AppVInputs == {Ok(1), Ok(2)}

NextAppend ==
    \/ \E g \in AppGateInputs :
          /\ Len(prover_cs.aL_assignment) < AppMaxGates
          /\ AssignA(g[1], g[2], g[3])
    \/ \E a \in AppVInputs :
          /\ Len(prover_cs.v_assignment) < AppMaxV
          /\ AssignV(a)
    \/ \E lc \in LCs(OwnVars(prover_cs), {one}, {zer}, 1) :
          /\ Len(prover_cs.lc_vec) < AppMaxLC
          /\ Constrain(lc)
    \/ \E r \in RngDraws(get_m(prover_cs)) : FinalizeProver(r)
    \/ \E r \in RngDraws(get_m(verifier_cs)) : FinalizeVerifier(r)

SpecAppend == Init /\ [][NextAppend]_vars

----------------------------------------------------------------------------
(* Properties.                                                             *)

Gates(cs) == 1 .. Len(cs.aL_assignment)
GateOf(cs, k) == <<cs.aL_assignment[k], cs.aR_assignment[k], cs.aO_assignment[k]>>
ProverFinalizes == phase.prover = "Open" /\ phase'.prover = "Finalized"
VerifierFinalizes == phase.verifier = "Open" /\ phase'.verifier = "Finalized"

\* the least power of two that is >= k, by its definition
PowersOfTwo(k) == {2 ^ e : e \in 0 .. k}
LeastPowerOfTwoAtLeast(k) ==
    CHOOSE p \in PowersOfTwo(k) :
        p >= k /\ \A r \in PowersOfTwo(k) : r >= k => p <= r
PaddedCount(n0) ==
    IF n0 = 0 \/ n0 \in PowersOfTwo(n0) THEN n0 ELSE LeastPowerOfTwoAtLeast(n0)

\* C1. Matrix agreement: once the same gadget steps have run on prover_cs
\* (whatever assignments the caller passed) and on verifier_cs (all
\* assignments missing) and both are finalized, the two circuits
\* (n, m, q, c, W_L, W_R, W_O, W_V) are identical.
C1_MatrixAgreement ==
    BothFinalized => prover_circuit = verifier_circuit

C1_Witness ==
    /\ BothFinalized
    /\ prover_circuit.n = 4
    /\ prover_circuit.q = 1
    /\ prover_circuit.m = 2
    /\ HasValue(prover_cs.aL_assignment[1])
    /\ Missing(verifier_cs.aL_assignment[1])
    /\ HasValue(prover_cs.v_assignment[1])
    /\ prover_circuit.W_O[1][3] # zer

\* C5. Padding rule: with n0 multiplier gates allocated, get_n() is n0 when
\* n0 is 0 or a power of two and the least power of two >= n0 otherwise, and
\* the circuit assembled at finalization has that n.
C5_PaddingRule ==
    [][/\ phase.prover = "Open" =>
            get_n(prover_cs) = PaddedCount(Len(prover_cs.aL_assignment))
       /\ ProverFinalizes =>
            prover_circuit'.n = PaddedCount(Len(prover_cs.aL_assignment))
       /\ VerifierFinalizes =>
            verifier_circuit'.n = PaddedCount(Len(verifier_cs.aL_assignment))]_vars

C5_Witness ==
    /\ phase.prover = "Finalized"
    /\ prover_circuit.n = 4
    /\ phase.verifier = "Open"
    /\ Len(verifier_cs.aL_assignment) = 3
    /\ get_n(verifier_cs) = 4

\* C6. Finalization padding: create_proof_input appends exactly n - n0 gates
\* (0, 0, 0) after the caller's n0 gates, keeps the first n0 entries of a_L,
\* a_R, a_O as they were, adds no constraint and touches no committed wire;
\* afterwards a_L, a_R, a_O each have length n, and so do the vectors of a
\* prover input that is produced.
PaddedFrom(before, after, n) ==
    LET n0 == Len(before.aL_assignment)
    IN  /\ Len(after.aL_assignment) = n
        /\ Len(after.aR_assignment) = n
        /\ Len(after.aO_assignment) = n
        /\ n - n0 = PaddedCount(n0) - n0
        /\ SubSeq(after.aL_assignment, 1, n0) = before.aL_assignment
        /\ SubSeq(after.aR_assignment, 1, n0) = before.aR_assignment
        /\ SubSeq(after.aO_assignment, 1, n0) = before.aO_assignment
        /\ \A k \in (n0 + 1) .. n : GateOf(after, k) = <<Ok(zer), Ok(zer), Ok(zer)>>
        /\ after.lc_vec = before.lc_vec
        /\ after.v_assignment = before.v_assignment

C6_FinalizationPadding ==
    [][/\ ProverFinalizes =>
            /\ PaddedFrom(prover_cs, prover_cs', prover_circuit'.n)
            /\ prover_circuit'.q = Len(prover_cs.lc_vec)
            /\ prover_input'.ok =>
                  /\ Len(prover_input'.aL) = prover_circuit'.n
                  /\ Len(prover_input'.aR) = prover_circuit'.n
                  /\ Len(prover_input'.aO) = prover_circuit'.n
       /\ VerifierFinalizes =>
            /\ PaddedFrom(verifier_cs, verifier_cs', verifier_circuit'.n)
            /\ verifier_circuit'.q = Len(verifier_cs.lc_vec)]_vars

C6_Witness ==
    /\ phase.prover = "Finalized"
    /\ Len(prover_cs.aL_assignment) = 4
    /\ GateOf(prover_cs, 3) = <<Ok(1), Ok(2), Ok(2)>>
    /\ GateOf(prover_cs, 4) = <<Ok(zer), Ok(zer), Ok(zer)>>
    /\ Len(prover_cs.lc_vec) = 1
    /\ prover_input.ok
    /\ Len(prover_input.aO) = 4

\* C7 (as amended). Allocation performs no gate-consistency check: on an
\* open CS assign_a can always be called with HasValue assignments whose
\* product is wrong, it returns the three variables of the new gate, and the
\* gate it stores is exactly the triple passed in.
C7_AssignAStoresTriple ==
    /\ BothOpen => ENABLED AssignA(Ok(1), Ok(1), Ok(2))
    /\ (BothOpen /\ ret.op = "assign_a") =>
          LET k == Len(prover_cs.aL_assignment)
          IN  /\ k >= 1
              /\ GateOf(prover_cs, k) = ret.args
              /\ ret.prover_vars =
                    <<Variable("aL", k - 1), Variable("aR", k - 1), Variable("aO", k - 1)>>

AllValues(g) == HasValue(g[1]) /\ HasValue(g[2]) /\ HasValue(g[3])
AllMissing(g) == Missing(g[1]) /\ Missing(g[2]) /\ Missing(g[3])
GateHolds(g) == Mul(g[1].val, g[2].val) = g[3].val

C7_Witness ==
    /\ BothOpen
    /\ ret.op = "assign_a"
    /\ AllValues(ret.args)
    /\ ~GateHolds(ret.args)
    /\ GateOf(prover_cs, Len(prover_cs.aL_assignment)) = ret.args

\* C7 (as claimed). A CS never holds a gate whose values violate
\* left * right = out.
C7_NoInconsistentGate ==
    \A k \in Gates(prover_cs) :
        AllValues(GateOf(prover_cs, k)) => GateHolds(GateOf(prover_cs, k))

\* C8. Every gate held by a CS is either all-HasValue or all-Missing (a
\* mixed triple is rejected at allocation).
C8_NoMixedGate ==
    \A k \in Gates(prover_cs) :
        AllValues(GateOf(prover_cs, k)) \/ AllMissing(GateOf(prover_cs, k))

\* C9 (as amended). At finalization, if any entry of a_L, a_R, a_O is
\* Missing the prover input is an error and carries no vectors, the error
\* being the one the Missing entry holds (InvalidVariableAssignment for
\* err_assignment()); if every entry is HasValue the prover input is
\* produced and holds the values of a_L, a_R, a_O.
AnyMissing(cs) ==
    \E k \in Gates(cs) :
        Missing(cs.aL_assignment[k]) \/ Missing(cs.aR_assignment[k])
            \/ Missing(cs.aO_assignment[k])

C10_MakeV ==
    [][V_call' # V_call =>
          LET b == V_call'.v_blinding
              r == V_call'.result
              m == Len(prover_cs.v_assignment)
          IN  /\ prover_cs' = prover_cs
              /\ Len(b) # m => (~r.ok /\ r.err = "IncorrectInputSize" /\ r.V = <<>>)
              /\ (Len(b) = m /\ \A i \in 1 .. m : HasValue(prover_cs.v_assignment[i])) =>
                    /\ r.ok
                    /\ Len(r.V) = m
                    /\ \A i \in 1 .. m :
                          r.V[i] = commit(prover_cs.v_assignment[i].val, b[i])]_vars

C10_Witness ==
    /\ V_call.called
    /\ V_call.result.ok
    /\ Len(V_call.result.V) = 3
    /\ V_call.result.V[1] = commit(1, 2)
    /\ V_call.result.V[3] = commit(2, 1)

----------------------------------------------------------------------------
(* The assembled matrices against the linear combinations they came from.  *)

Cell(circuit, i, var) ==
    CASE var.var_type = "aL" -> circuit.W_L[i][var.index + 1]
      [] var.var_type = "aR" -> circuit.W_R[i][var.index + 1]
      [] var.var_type = "aO" -> circuit.W_O[i][var.index + 1]
      [] var.var_type = "v"  -> circuit.W_V[i][var.index + 1]

\* every cell of one row: n columns of W_L, W_R, W_O and m columns of W_V
CellsOf(circuit) ==
    {Variable(t, k) : t \in {"aL", "aR", "aO"}, k \in 0 .. (circuit.n - 1)}
    \cup {Variable("v", k) : k \in 0 .. (circuit.m - 1)}

\* the sign a coefficient takes on entry: minus on multiplier wires, plus
\* on committed wires
Signed(var, coeff) == IF var.var_type = "v" THEN coeff ELSE Neg(coeff)

Naming(lc, var) == {j \in 1 .. Len(lc.variables) : lc.variables[j][1] = var}
Last(J) == CHOOSE j \in J : \A k \in J : k <= j

RECURSIVE SumSigned(_, _, _)
SumSigned(lc, var, j) ==
    IF j = 0 THEN zer
    ELSE LET rest == SumSigned(lc, var, j - 1)
         IN  IF lc.variables[j][1] = var
             THEN Add(rest, Signed(var, lc.variables[j][2]))
             ELSE rest

\* C2. Sign convention: in the assembled circuit, the write made for a term
\* (var, coeff) of constraint i puts -coeff into the cell of W_L, W_R or W_O
\* a multiplier variable names and +coeff into the cell of W_V a committed
\* variable names (the cell holds the value written for the last term that
\* names it), c[i] is the constraint's constant with sign +, and every cell
\* that no term of constraint i names is zero.
C2_SignConvention ==
    phase.prover = "Finalized" =>
        \A i \in 1 .. prover_circuit.q :
            LET lc == prover_cs.lc_vec[i]
            IN  /\ prover_circuit.c[i] = lc.constant
                /\ \A var \in CellsOf(prover_circuit) :
                      LET J == Naming(lc, var)
                      IN  Cell(prover_circuit, i, var) =
                             IF J = {} THEN zer
                             ELSE Signed(var, lc.variables[Last(J)][2])

C2_Witness ==
    /\ phase.prover = "Finalized"
    /\ prover_circuit.q = 1
    /\ prover_cs.lc_vec[1] =
          LinearCombination(<<<<Variable("aR", 1), one>>, <<Variable("v", 0), one>>>>, one)
    /\ prover_circuit.W_R[1] = <<zer, Neg(one)>>
    /\ prover_circuit.W_V[1] = <<one>>
    /\ prover_circuit.W_L[1] = <<zer, zer>>
    /\ prover_circuit.c[1] = one

\* C3. Duplicate accumulation: every cell of row i holds the sum of the
\* sign-adjusted coefficients of all the terms of constraint i that name it.
C3_DuplicateAccumulation ==
    phase.prover = "Finalized" =>
        \A i \in 1 .. prover_circuit.q :
            \A var \in CellsOf(prover_circuit) :
                Cell(prover_circuit, i, var) =
                    SumSigned(prover_cs.lc_vec[i], var, Len(prover_cs.lc_vec[i].variables))

\* C4. Row semantics: for every full witness (a_L, a_R, a_O, v), row i
\* satisfies <W_L[i],a_L> + <W_R[i],a_R> + <W_O[i],a_O> - <W_V[i],v> + c[i] = 0
\* exactly when the i-th linear combination (the sum of coeff * wire value,
\* plus its constant) evaluates to zero.
RECURSIVE Inner(_, _, _)
Inner(row, a, k) ==
    IF k = 0 THEN zer ELSE Add(Inner(row, a, k - 1), Mul(row[k], a[k]))

Witnesses(n, m) ==
    [aL : [1 .. n -> Scalars], aR : [1 .. n -> Scalars],
     aO : [1 .. n -> Scalars], v : [1 .. m -> Scalars]]

WireValue(w, var) ==
    CASE var.var_type = "aL" -> w.aL[var.index + 1]
      [] var.var_type = "aR" -> w.aR[var.index + 1]
      [] var.var_type = "aO" -> w.aO[var.index + 1]
      [] var.var_type = "v"  -> w.v[var.index + 1]

RECURSIVE EvalTerms(_, _, _)
EvalTerms(lc, w, j) ==
    IF j = 0 THEN zer
    ELSE Add(EvalTerms(lc, w, j - 1),
             Mul(lc.variables[j][2], WireValue(w, lc.variables[j][1])))

Eval(lc, w) == Add(EvalTerms(lc, w, Len(lc.variables)), lc.constant)

RowValue(circuit, i, w) ==
    Add(Add(Add(Add(Inner(circuit.W_L[i], w.aL, circuit.n),
                    Inner(circuit.W_R[i], w.aR, circuit.n)),
                Inner(circuit.W_O[i], w.aO, circuit.n)),
            Neg(Inner(circuit.W_V[i], w.v, circuit.m))),
        circuit.c[i])

C4_RowSemantics ==
    phase.prover = "Finalized" =>
        \A i \in 1 .. prover_circuit.q :
            \A w \in Witnesses(prover_circuit.n, prover_circuit.m) :
                (RowValue(prover_circuit, i, w) = zer)
                    <=> (Eval(prover_cs.lc_vec[i], w) = zer)

----------------------------------------------------------------------------
(* Allocation and indexing.                                                *)

\* the gadget step just taken, told by what it returned
AllocatesGate == phase' = phase /\ prover_cs' # prover_cs /\ ret'.op = "assign_a"
AllocatesWire == phase' = phase /\ prover_cs' # prover_cs /\ ret'.op = "assign_v"
AddsConstraint == phase' = phase /\ prover_cs' # prover_cs /\ ret'.op = "constrain"

EqualLengths(cs) ==
    /\ Len(cs.aL_assignment) = Len(cs.aR_assignment)
    /\ Len(cs.aR_assignment) = Len(cs.aO_assignment)

Extends(before, after, k) == Len(after) = Len(before) + k /\ SubSeq(after, 1, Len(before)) = before

OneMoreGate(before, after) ==
    /\ Extends(before.aL_assignment, after.aL_assignment, 1)
    /\ Extends(before.aR_assignment, after.aR_assignment, 1)
    /\ Extends(before.aO_assignment, after.aO_assignment, 1)

GateVariables(vs, k) == vs = <<Variable("aL", k), Variable("aR", k), Variable("aO", k)>>

\* C12. Each multiplier allocation appends exactly one entry to each of
\* a_L, a_R, a_O and returns a left, a right and an output variable carrying
\* one and the same index; a_L, a_R, a_O have equal length in every state,
\* before and after every step (finalization padding included).
C12_ParallelMultipliers ==
    [][/\ EqualLengths(prover_cs) /\ EqualLengths(prover_cs')
       /\ EqualLengths(verifier_cs) /\ EqualLengths(verifier_cs')
       /\ AllocatesGate =>
             /\ OneMoreGate(prover_cs, prover_cs')
             /\ OneMoreGate(verifier_cs, verifier_cs')
             /\ \E k \in 0 .. MaxGates : GateVariables(ret'.prover_vars, k)
             /\ \E k \in 0 .. MaxGates : GateVariables(ret'.verifier_vars, k)]_vars

C12_Witness ==
    /\ BothOpen
    /\ ret.op = "assign_a"
    /\ ret.args = <<Ok(1), err_assignment, Ok(1)>>
    /\ Len(prover_cs.aL_assignment) = 3
    /\ Len(prover_cs.aO_assignment) = 3
    /\ GateVariables(ret.prover_vars, 2)
    /\ GateVariables(ret.verifier_vars, 2)

\* row i of the circuit is the row of lc: its nonzero cells are the cells
\* the terms of lc name, and c[i] is the constant of lc
RowOf(circuit, i, lc) ==
    /\ circuit.c[i] = lc.constant
    /\ \A var \in CellsOf(circuit) :
          (Cell(circuit, i, var) # zer) <=> (Naming(lc, var) # {})

\* C13. Indices follow insertion order under any interleaving: an
\* allocation made after k multiplier allocations returns the variables of
\* index k and leaves the committed wires and the constraints as they were;
\* an allocation made after k committed-wire allocations returns index k and
\* leaves the gates and the constraints as they were; a constraint added
\* after k constraints takes position k and leaves every assignment vector
\* as it was; at finalization the k-th constraint is row k of W_L, W_R, W_O,
\* W_V and entry k of c.
C13_InsertionOrder ==
    [][/\ AllocatesGate =>
             /\ GateVariables(ret'.prover_vars, Len(prover_cs.aL_assignment))
             /\ GateVariables(ret'.verifier_vars, Len(verifier_cs.aL_assignment))
             /\ Len(prover_cs'.aL_assignment) = Len(prover_cs.aL_assignment) + 1
             /\ prover_cs'.v_assignment = prover_cs.v_assignment
             /\ prover_cs'.lc_vec = prover_cs.lc_vec
       /\ AllocatesWire =>
             /\ ret'.prover_vars = <<Variable("v", Len(prover_cs.v_assignment))>>
             /\ ret'.verifier_vars = <<Variable("v", Len(verifier_cs.v_assignment))>>
             /\ Len(prover_cs'.v_assignment) = Len(prover_cs.v_assignment) + 1
             /\ prover_cs'.aL_assignment = prover_cs.aL_assignment
             /\ prover_cs'.aR_assignment = prover_cs.aR_assignment
             /\ prover_cs'.aO_assignment = prover_cs.aO_assignment
             /\ prover_cs'.lc_vec = prover_cs.lc_vec
       /\ AddsConstraint =>
             /\ Extends(prover_cs.lc_vec, prover_cs'.lc_vec, 1)
             /\ prover_cs'.lc_vec[Len(prover_cs.lc_vec) + 1] = ret'.lc
             /\ prover_cs'.aL_assignment = prover_cs.aL_assignment
             /\ prover_cs'.v_assignment = prover_cs.v_assignment
       /\ ProverFinalizes =>
             /\ prover_circuit'.q = Len(prover_cs.lc_vec)
             /\ \A i \in 1 .. Len(prover_cs.lc_vec) :
                   RowOf(prover_circuit', i, prover_cs.lc_vec[i])]_vars

C13_Witness ==
    /\ phase.prover = "Finalized"
    /\ Len(prover_cs.aL_assignment) = 2
    /\ Len(prover_cs.v_assignment) = 2
    /\ prover_cs.lc_vec =
          <<LinearCombination(<<<<Variable("v", 1), one>>>>, zer),
            LinearCombination(<<<<Variable("aR", 0), one>>>>, one)>>
    /\ prover_circuit.W_V = <<<<zer, one>>, <<zer, zer>>>>
    /\ prover_circuit.W_R = <<<<zer, zer>>, <<Neg(one), zer>>>>
    /\ prover_circuit.c = <<zer, one>>
    /\ ret.op = "constrain"

Rows(W, q, k) == Len(W) = q /\ \A i \in 1 .. q : Len(W[i]) = k

Dimensions(circuit, cs) ==
    /\ circuit.q = Len(cs.lc_vec)
    /\ circuit.m = Len(cs.v_assignment)
    /\ circuit.m = get_m(cs)
    /\ Rows(circuit.W_L, circuit.q, circuit.n)
    /\ Rows(circuit.W_R, circuit.q, circuit.n)
    /\ Rows(circuit.W_O, circuit.q, circuit.n)
    /\ Rows(circuit.W_V, circuit.q, circuit.m)
    /\ Len(circuit.c) = circuit.q

\* C14. Circuit dimensions: in the circuit assembled at finalization, q is
\* the number of constraints added, m the number of committed wires
\* allocated (get_m), W_L, W_R, W_O have q rows of n columns each, W_V has q
\* rows of m columns, and c has length q.
C14_CircuitDimensions ==
    /\ phase.prover = "Finalized" => Dimensions(prover_circuit, prover_cs)
    /\ phase.verifier = "Finalized" => Dimensions(verifier_circuit, verifier_cs)

C14_Witness ==
    /\ BothFinalized
    /\ Len(prover_cs.lc_vec) = 1
    /\ Len(prover_cs.v_assignment) = 2
    /\ prover_circuit.n = 4
    /\ Len(prover_circuit.W_L[1]) = 4
    /\ Len(prover_circuit.W_V[1]) = 2
    /\ Len(verifier_circuit.W_O[1]) = 4
    /\ prover_circuit.W_V[1][2] # zer

----------------------------------------------------------------------------
(* Roles and lifecycle.                                                    *)

OnlyValues(cs) == \A k \in Gates(cs) : AllValues(GateOf(cs, k))
OnlyMissing(cs) == \A k \in Gates(cs) : AllMissing(GateOf(cs, k))

\* C15. Role invariant: a CS whose caller supplies only HasValue assignments
\* holds only HasValue in a_L, a_R, a_O after every step, and the verifier's
\* CS, whose caller supplies only Missing assignments, holds only Missing in
\* a_L, a_R, a_O after every step, finalization padding included.
C15_RoleInvariant ==
    [][/\ (OnlyValues(prover_cs) /\ (AllocatesGate => AllValues(ret'.args)))
             => OnlyValues(prover_cs')
       /\ OnlyMissing(verifier_cs) => OnlyMissing(verifier_cs')]_vars

\* a constrain call, told by what the gadget step recorded
ConstrainCalled ==
    /\ phase' = phase
    /\ ret'.op = "constrain"
    /\ ret' # ret \/ prover_cs' # prover_cs

\* the values a CS holds, when it holds a value for every wire
CurrentWitness(cs) ==
    [aL |-> Values(cs.aL_assignment), aR |-> Values(cs.aR_assignment),
     aO |-> Values(cs.aO_assignment), v |-> Values(cs.v_assignment)]

Mentions(lc, cs) == \A j \in 1 .. Len(lc.variables) : lc.variables[j][1] \in OwnVars(cs)

\* C17. constrain appends the linear combination it is given as the last
\* element of lc_vec and does nothing else: on an open CS it can be called
\* with a combination that cannot evaluate to zero and with one naming a
\* wire whatever has been allocated, every call leaves lc_vec extended by
\* exactly that combination, and no assignment vector changes.
C17_ConstrainAppends ==
    [][/\ BothOpen =>
             /\ ENABLED Constrain(LinearCombination(<<>>, one))
             /\ ENABLED Constrain(LinearCombination(<<<<Variable("aL", 0), one>>>>, zer))
       /\ ConstrainCalled =>
             /\ prover_cs'.lc_vec = Append(prover_cs.lc_vec, ret'.lc)
             /\ verifier_cs'.lc_vec = Append(verifier_cs.lc_vec, ret'.lc)
             /\ [prover_cs' EXCEPT !.lc_vec = <<>>] = [prover_cs EXCEPT !.lc_vec = <<>>]
             /\ [verifier_cs' EXCEPT !.lc_vec = <<>>] = [verifier_cs EXCEPT !.lc_vec = <<>>]]_vars

C17_Witness ==
    /\ BothOpen
    /\ ret.op = "constrain"
    /\ Len(prover_cs.lc_vec) = 2
    /\ prover_cs.lc_vec[2] = ret.lc
    /\ ret.lc.variables # <<>>
    /\ Mentions(ret.lc, prover_cs)
    /\ OnlyValues(prover_cs)
    /\ AllHaveValue(prover_cs.v_assignment)
    /\ Eval(ret.lc, CurrentWitness(prover_cs)) # zer
    /\ Eval(prover_cs.lc_vec[1], CurrentWitness(prover_cs)) = zer

\* C18. No panic on user input: whatever allocations were made and whatever
\* linear combinations were added (built from variables a CS of this type
\* returned, this one or another), create_proof_input returns; matrix
\* assembly never aborts on a wire index past the end of a row.
C18_NoPanic ==
    phase.prover # "Panicked" /\ phase.verifier # "Panicked"

----------------------------------------------------------------------------
(* Assignment arithmetic.                                                  *)

\* z is x op y in the field, stated without computing it
FieldResult(op, x, y, z) ==
    CASE op = "+" -> \E k \in 0 .. 1 : x + y = z + k * P
      [] op = "-" -> \E k \in 0 .. 1 : z + y = x + k * P
      [] op = "*" -> \E k \in 0 .. P : x * y = z + k * P

\* C19. Assignment absorption: for + , - and *, a Missing operand on either
\* side gives Missing, two HasValue operands give HasValue of the field
\* operation on their scalars, and no operand (Missing included) makes the
\* operation fail: the gadget step that computes it is enabled for every
\* pair of assignments and the result is what the CS then holds.
C19_Absorption ==
    /\ BothOpen =>
          \A op \in AssignmentOps, x \in Assignments :
              /\ ENABLED GadgetMultiplier(op, err_assignment, x)
              /\ ENABLED GadgetMultiplier(op, x, err_assignment)
    /\ expr.op # "none" =>
          /\ (Missing(expr.left) \/ Missing(expr.right)) => Missing(expr.result)
          /\ (HasValue(expr.left) /\ HasValue(expr.right)) =>
                /\ HasValue(expr.result)
                /\ expr.result.val \in Scalars
                /\ FieldResult(expr.op, expr.left.val, expr.right.val, expr.result.val)
          /\ Missing(expr.verifier_result)
          /\ prover_cs.aO_assignment[Len(prover_cs.aO_assignment)] = expr.result

C19_Witness ==
    /\ expr.op = "*"
    /\ expr.left = Ok(2)
    /\ Missing(expr.right)
    /\ Missing(expr.result)
    /\ Len(prover_cs.aO_assignment) = 2
    /\ GateOf(prover_cs, 1) = <<Ok(2), Ok(2), Ok(1)>>

----------------------------------------------------------------------------
(* Challenges.                                                             *)

Absorbed(t, kind) == SelectSeq(t, LAMBDA e : e.kind = kind)
LabelsOf(t) == [i \in 1 .. Len(Absorbed(t, "challenge")) |-> Absorbed(t, "challenge")[i].label]
Min(a, b) == IF a < b THEN a ELSE b

\* C20. Challenge agreement: when the prover's and the verifier's
\* transcripts absorbed the same commitments in the same order, then at
\* every position up to which the two CSs requested challenges with the
\* same labels the two scalars are equal, whatever multiplier gates and
\* constraints either CS held when it made its request (the prover's gates
\* hold values, the verifier's none, and requests interleave freely with
\* allocations); each CS has one scalar per request.
C20_ChallengeAgreement ==
    /\ Len(challenges.prover) = Len(LabelsOf(transcript.prover))
    /\ Len(challenges.verifier) = Len(LabelsOf(transcript.verifier))
    /\ Absorbed(transcript.prover, "V") = Absorbed(transcript.verifier, "V") =>
          \A i \in 1 .. Min(Len(challenges.prover), Len(challenges.verifier)) :
              SubSeq(LabelsOf(transcript.prover), 1, i)
                    = SubSeq(LabelsOf(transcript.verifier), 1, i)
                 => challenges.prover[i] = challenges.verifier[i]

C20_Witness ==
    /\ Len(Absorbed(transcript.prover, "V")) = 1
    /\ Absorbed(transcript.prover, "V") = Absorbed(transcript.verifier, "V")
    /\ LabelsOf(transcript.prover) = <<"k-shuffle challenge", "second challenge">>
    /\ LabelsOf(transcript.verifier) = <<"k-shuffle challenge", "second challenge">>
    /\ Len(prover_cs.aL_assignment) = 1
    /\ Len(prover_cs.lc_vec) = 1
    /\ HasValue(prover_cs.aL_assignment[1])
    /\ Missing(verifier_cs.aL_assignment[1])
    /\ challenges.prover = challenges.verifier
    /\ Len(challenges.prover) = 2

----------------------------------------------------------------------------
(* Lifecycle.                                                              *)

ProverSide == <<prover_cs, transcript.prover, challenges.prover,
                prover_circuit, prover_input, verifier_input>>
VerifierSide == <<verifier_cs, transcript.verifier, challenges.verifier, verifier_circuit>>

\* C16. Lifecycle: each CS starts Open with no gate, no constraint and
\* nothing returned; its phase changes only from Open to Finalized, and it
\* does so exactly on the step that returns the result of
\* create_proof_input; once a CS is Finalized no step allocates on it, adds
\* a constraint to it, requests a challenge from it or finalizes it again:
\* nothing of it changes any more.
C16_Lifecycle ==
    /\ BothOpen
    /\ Gates(prover_cs) = {} /\ Gates(verifier_cs) = {}
    /\ prover_cs.lc_vec = <<>> /\ verifier_cs.lc_vec = <<>>
    /\ prover_input = ErrProverInput("none") /\ verifier_circuit = NoCircuit
    /\ [][/\ phase'.prover # phase.prover => ProverFinalizes
          /\ phase'.verifier # phase.verifier => VerifierFinalizes
          /\ ProverFinalizes <=> prover_input' # prover_input
          /\ verifier_circuit' # verifier_circuit => VerifierFinalizes
          /\ phase.prover = "Finalized" =>
                phase'.prover = "Finalized" /\ ProverSide' = ProverSide
          /\ phase.verifier = "Finalized" =>
                phase'.verifier = "Finalized" /\ VerifierSide' = VerifierSide]_vars

C16_Witness ==
    /\ BothFinalized
    /\ Len(prover_cs.aL_assignment) = 1
    /\ Len(prover_cs.lc_vec) = 1
    /\ Len(challenges.prover) = 2
    /\ Len(challenges.verifier) = 1
    /\ prover_input.ok
    /\ verifier_circuit.q = 1

----------------------------------------------------------------------------
(* Round trip.                                                             *)

WitnessSatisfies(cs) ==
    /\ \A k \in Gates(cs) : GateHolds(GateOf(cs, k))
    /\ \A i \in 1 .. Len(cs.lc_vec) : Eval(cs.lc_vec[i], CurrentWitness(cs)) = zer

\* C11. Soundness round-trip: for a prover CS and a verifier CS built by the
\* same steps, the proof made from the prover's circuit and input verifies
\* against the verifier's circuit exactly when the prover's values make
\* every added linear combination evaluate to zero and every multiplier
\* gate satisfy left * right = out.
C11_RoundTrip ==
    actual_result # "none" =>
        (actual_result = "Ok" <=> WitnessSatisfies(prover_cs))

----------------------------------------------------------------------------
(* Padding and the matrices.                                               *)

\* some term of some constraint of cs names the multiplier wire of index k
NamesMultiplier(cs, k) ==
    \E i \in 1 .. Len(cs.lc_vec) : \E j \in 1 .. Len(cs.lc_vec[i].variables) :
        /\ cs.lc_vec[i].variables[j][1].var_type # "v"
        /\ cs.lc_vec[i].variables[j][1].index = k

\* columns n0 .. n-1 (positions n0+1 .. n) of W_L, W_R, W_O are zero in
\* every row
PaddedColumnsZero(circuit, n0) ==
    \A i \in 1 .. circuit.q : \A k \in (n0 + 1) .. circuit.n :
        /\ circuit.W_L[i][k] = zer
        /\ circuit.W_R[i][k] = zer
        /\ circuit.W_O[i][k] = zer

\* C21. Padding correctness of the matrices: while a CS is open, the
\* constraints built from its own variables name only multiplier indices
\* 0 .. n0-1, n0 being the number of multipliers allocated; finalization
\* adds no constraint, and in the circuit it assembles every cell in columns
\* n0 .. n-1 of W_L, W_R and W_O is zero in every row.
C21_PaddingColumns ==
    [][/\ phase.prover = "Open" =>
             \A k \in 0 .. MaxGates :
                 NamesMultiplier(prover_cs, k) => k < Len(prover_cs.aL_assignment)
       /\ ProverFinalizes =>
             /\ prover_cs'.lc_vec = prover_cs.lc_vec
             /\ prover_circuit'.n >= Len(prover_cs.aL_assignment)
             /\ PaddedColumnsZero(prover_circuit', Len(prover_cs.aL_assignment))
       /\ VerifierFinalizes =>
             /\ verifier_cs'.lc_vec = verifier_cs.lc_vec
             /\ verifier_circuit'.n >= Len(verifier_cs.aL_assignment)
             /\ PaddedColumnsZero(verifier_circuit', Len(verifier_cs.aL_assignment))]_vars

C21_Witness ==
    /\ BothFinalized
    /\ prover_circuit.n = 4
    /\ prover_circuit.q = 1
    /\ NamesMultiplier(prover_cs, 2)
    /\ prover_cs.lc_vec[1].variables[1][1] = Variable("aO", 2)
    /\ prover_circuit.W_O[1] = <<zer, zer, one, zer>>
    /\ prover_circuit.W_L[1] = <<zer, zer, zer, zer>>
    /\ verifier_circuit.W_O[1][4] = zer
    /\ GateOf(prover_cs, 4) = <<Ok(zer), Ok(zer), Ok(zer)>>

----------------------------------------------------------------------------
(* Frame of every operation.                                               *)

Prefix(before, after) ==
    Len(after) >= Len(before) /\ SubSeq(after, 1, Len(before)) = before

\* every vector of the CS keeps the entries it had, at the positions they had
AppendOnly(before, after) ==
    /\ Prefix(before.lc_vec, after.lc_vec)
    /\ Prefix(before.aL_assignment, after.aL_assignment)
    /\ Prefix(before.aR_assignment, after.aR_assignment)
    /\ Prefix(before.aO_assignment, after.aO_assignment)
    /\ Prefix(before.v_assignment, after.v_assignment)

SameGates(before, after) ==
    /\ after.aL_assignment = before.aL_assignment
    /\ after.aR_assignment = before.aR_assignment
    /\ after.aO_assignment = before.aO_assignment

\* C22. Monotone, append-only mutation: every step, finalization included,
\* leaves each entry of lc_vec, a_L, a_R, a_O and v of both systems where it
\* was, so every variable returned earlier is still a variable of the CS;
\* assign_a leaves the constraints and the committed wires unchanged,
\* assign_v leaves the constraints and a_L, a_R, a_O unchanged, and
\* constrain leaves the four assignment vectors unchanged.
C22_AppendOnly ==
    [][/\ AppendOnly(prover_cs, prover_cs')
       /\ AppendOnly(verifier_cs, verifier_cs')
       /\ OwnVars(prover_cs) \subseteq OwnVars(prover_cs')
       /\ OwnVars(verifier_cs) \subseteq OwnVars(verifier_cs')
       /\ AllocatesGate =>
             /\ prover_cs'.lc_vec = prover_cs.lc_vec
             /\ prover_cs'.v_assignment = prover_cs.v_assignment
             /\ verifier_cs'.lc_vec = verifier_cs.lc_vec
             /\ verifier_cs'.v_assignment = verifier_cs.v_assignment
       /\ AllocatesWire =>
             /\ prover_cs'.lc_vec = prover_cs.lc_vec
             /\ SameGates(prover_cs, prover_cs')
             /\ verifier_cs'.lc_vec = verifier_cs.lc_vec
             /\ SameGates(verifier_cs, verifier_cs')
       /\ ConstrainCalled =>
             /\ SameGates(prover_cs, prover_cs')
             /\ prover_cs'.v_assignment = prover_cs.v_assignment
             /\ SameGates(verifier_cs, verifier_cs')
             /\ verifier_cs'.v_assignment = verifier_cs.v_assignment]_vars

C22_Witness ==
    /\ BothOpen
    /\ ret.op = "assign_v"
    /\ Len(prover_cs.aL_assignment) = 2
    /\ GateOf(prover_cs, 1) = <<Ok(2), Ok(2), Ok(1)>>
    /\ GateOf(prover_cs, 2) = <<Ok(1), Ok(1), Ok(1)>>
    /\ prover_cs.lc_vec =
          <<LinearCombination(<<<<Variable("aR", 0), one>>>>, zer),
            LinearCombination(<<<<Variable("aL", 1), one>>>>, zer)>>
    /\ prover_cs.v_assignment = <<Ok(2)>>
    /\ verifier_cs.lc_vec = prover_cs.lc_vec

----------------------------------------------------------------------------
(* Index safety of a CS's own variables.                                   *)

\* var names a wire the CS holds: a multiplier index below n0 <= n, a
\* committed index below m
InRange(var, cs) ==
    IF var.var_type = "v"
    THEN var.index >= 0 /\ var.index < get_m(cs)
    ELSE /\ var.index >= 0
         /\ var.index < Len(cs.aL_assignment)
         /\ Len(cs.aL_assignment) <= get_n(cs)

AllInRange(vs, cs) == \A i \in 1 .. Len(vs) : InRange(vs[i], cs)

NoShorter(before, after) ==
    /\ Len(after.aL_assignment) >= Len(before.aL_assignment)
    /\ Len(after.v_assignment) >= Len(before.v_assignment)
    /\ get_n(after) >= get_n(before)
    /\ get_m(after) >= get_m(before)

\* every term of every constraint names a cell of the circuit's row
TermsInsideMatrices(circuit, lcs) ==
    \A i \in 1 .. Len(lcs) : \A j \in 1 .. Len(lcs[i].variables) :
        LET var == lcs[i].variables[j][1]
        IN  /\ i <= circuit.q
            /\ var \in CellsOf(circuit)
            /\ var.var_type = "aL" => var.index + 1 \in DOMAIN circuit.W_L[i]
            /\ var.var_type = "aR" => var.index + 1 \in DOMAIN circuit.W_R[i]
            /\ var.var_type = "aO" => var.index + 1 \in DOMAIN circuit.W_O[i]
            /\ var.var_type = "v" => var.index + 1 \in DOMAIN circuit.W_V[i]

\* C23. Own-handle index safety: every variable an allocation returns has
\* an index below the number of wires of its class the CS then holds
\* (multipliers: index < n0 <= n; committed: index < m), and those numbers
\* never decrease, so a variable stays in range once returned; with
\* constraints built only from the CS's own variables, matrix assembly at
\* finalization never indexes past the end of a row: create_proof_input
\* does not panic and every term names a cell of the q x n or q x m matrix.
C23_OwnHandleSafety ==
    [][/\ AllocatesGate \/ AllocatesWire =>
             /\ ret'.prover_vars # <<>>
             /\ AllInRange(ret'.prover_vars, prover_cs')
             /\ AllInRange(ret'.verifier_vars, verifier_cs')
       /\ NoShorter(prover_cs, prover_cs')
       /\ NoShorter(verifier_cs, verifier_cs')
       /\ phase.prover = "Open" => ~create_proof_input_panics(prover_cs)
       /\ phase.verifier = "Open" => ~create_proof_input_panics(verifier_cs)
       /\ phase'.prover # "Panicked" /\ phase'.verifier # "Panicked"
       /\ ProverFinalizes => TermsInsideMatrices(prover_circuit', prover_cs.lc_vec)
       /\ VerifierFinalizes => TermsInsideMatrices(verifier_circuit', verifier_cs.lc_vec)]_vars

C23_Witness ==
    /\ BothFinalized
    /\ prover_circuit.n = 4
    /\ prover_circuit.m = 1
    /\ prover_circuit.q = 2
    /\ prover_cs.lc_vec =
          <<LinearCombination(<<<<Variable("aO", 2), one>>>>, zer),
            LinearCombination(<<<<Variable("v", 0), one>>>>, zer)>>
    /\ prover_circuit.W_O[1][3] # zer
    /\ prover_circuit.W_V[2][1] # zer
    /\ verifier_circuit = prover_circuit

====
